---- MODULE Spec2Model ----
(***************************************************************************)
(* Model of masar.py: the employee form (EmployeeTab), its validation, the *)
(* text normalizer and the two SQLite tables (employee, attachment).       *)
(*                                                                         *)
(* Text is modelled as a sequence of characters; a character is a short    *)
(* string naming one code point.                                           *)
(***************************************************************************)
EXTENDS Integers, Sequences, FiniteSets, TLC

VARIABLES
    employee,         \* employee table: id -> row (a record over EMPLOYEE_FIELDS)
    attachment,       \* attachment table: sequence of rows in insertion order
    seq,              \* sqlite_sequence of employee: largest id ever assigned
    form_fields,      \* text of the QLineEdit of every field
    selected_emp_id,  \* EmployeeTab.selected_emp_id (None when nothing is selected)
    attachments,      \* EmployeeTab.attachments: sequence of <<fname, fpath>>
    photo_path,       \* EmployeeTab.photo_path
    table,            \* ids shown in the QTableWidget (last list / search result)
    today,            \* datetime.date.today(), as <<year, month, day>>
    lastOp,           \* the last handler run and its outcome
    deleted,          \* history: ids removed by a confirmed delete_employee
    disk,             \* files under ATTACHMENTS_DIR: destination path -> content
    text,             \* argument of normalize_arabic (normalizer specification)
    result            \* its result, or Pending before the call

vars == <<employee, attachment, seq, form_fields, selected_emp_id, attachments,
          photo_path, table, today, lastOp, deleted, disk, text, result>>

-----------------------------------------------------------------------------
(* Characters *)

Tatweel == "tatweel"
AlefHamzaAbove == "alef_hamza_above"
AlefHamzaBelow == "alef_hamza_below"
AlefMadda == "alef_madda"
Alef == "alef"
TehMarbuta == "teh_marbuta"
Heh == "heh"
AlefMaksura == "alef_maksura"
Yeh == "yeh"
Space == " "
Hyphen == "-"

Digits == {"0", "1", "2", "3", "4", "5", "6", "7", "8", "9"}

DigitVal ==
    [c \in Digits |->
        CASE c = "0" -> 0 [] c = "1" -> 1 [] c = "2" -> 2 [] c = "3" -> 3
          [] c = "4" -> 4 [] c = "5" -> 5 [] c = "6" -> 6 [] c = "7" -> 7
          [] c = "8" -> 8 [] c = "9" -> 9]

\* characters str.strip() removes at either end
Whitespace == {Space}

-----------------------------------------------------------------------------
(* Text helpers (Python str methods) *)

RECURSIVE lstrip(_)
lstrip(s) ==
    IF s # <<>> /\ Head(s) \in Whitespace THEN lstrip(Tail(s)) ELSE s

RECURSIVE rstrip(_)
rstrip(s) ==
    IF s # <<>> /\ s[Len(s)] \in Whitespace
    THEN rstrip(SubSeq(s, 1, Len(s) - 1))
    ELSE s

strip(s) == rstrip(lstrip(s))

\* str.replace(src, target) for single-character src and target
replace(s, src, target) ==
    [i \in 1..Len(s) |-> IF s[i] = src THEN target ELSE s[i]]

\* str.replace(ch, "")
remove(s, ch) == SelectSeq(s, LAMBDA c : c # ch)

isdigit(s) == s # <<>> /\ \A i \in 1..Len(s) : s[i] \in Digits

-----------------------------------------------------------------------------
(* normalize_arabic *)

replacements ==
    << <<AlefHamzaAbove, Alef>>,
       <<AlefHamzaBelow, Alef>>,
       <<AlefMadda, Alef>>,
       <<TehMarbuta, Heh>>,
       <<AlefMaksura, Yeh>> >>

RECURSIVE ApplyReplacements(_, _)
ApplyReplacements(s, k) ==
    IF k > Len(replacements) THEN s
    ELSE ApplyReplacements(replace(s, replacements[k][1], replacements[k][2]), k + 1)

\* strip() applied before the tatweel is removed
normalize_arabic_StripFirst(s) ==
    IF s = <<>> THEN s
    ELSE ApplyReplacements(remove(strip(s), Tatweel), 1)

normalize_arabic(s) ==
    IF s = <<>> THEN s
    ELSE strip(ApplyReplacements(remove(s, Tatweel), 1))

-----------------------------------------------------------------------------
(* Schema and form *)

None == 0          \* selected_emp_id = None; row ids start at 1
NoPath == <<>>     \* photo_path = None

EMPLOYEE_FIELDS ==
    << "name", "grade", "grade_date", "hire_date", "file_no", "qualification",
       "functional_group", "type_group", "job_title", "department", "current_work",
       "birth_date", "insurance_no", "national_id", "address", "phone", "notes" >>

FieldNames == {EMPLOYEE_FIELDS[i] : i \in 1..Len(EMPLOYEE_FIELDS)}

date_fields == << "grade_date", "hire_date", "birth_date" >>

NationalIdLen == 14

EmptyForm == [f \in FieldNames |-> <<>>]

-----------------------------------------------------------------------------
(* datetime.datetime.strptime(date_str, "%Y-%m-%d").date() *)

IsLeap(y) == (y % 4 = 0 /\ y % 100 # 0) \/ y % 400 = 0

DaysInMonth(y, m) ==
    IF m = 2 THEN (IF IsLeap(y) THEN 29 ELSE 28)
    ELSE IF m \in {4, 6, 9, 11} THEN 30 ELSE 31

\* %m : 1[0-2] | 0[1-9] | [1-9]
MonthOf(s) ==
    IF Len(s) = 1 /\ s[1] \in Digits \ {"0"} THEN DigitVal[s[1]]
    ELSE IF Len(s) = 2 /\ s[1] = "0" /\ s[2] \in Digits \ {"0"} THEN DigitVal[s[2]]
    ELSE IF Len(s) = 2 /\ s[1] = "1" /\ s[2] \in {"0", "1", "2"} THEN 10 + DigitVal[s[2]]
    ELSE 0

\* %d : 3[0-1] | [1-2]\d | 0[1-9] | [1-9] | " "[1-9]
DayOf(s) ==
    IF Len(s) = 1 /\ s[1] \in Digits \ {"0"} THEN DigitVal[s[1]]
    ELSE IF Len(s) = 2 /\ s[1] \in {"0", Space} /\ s[2] \in Digits \ {"0"} THEN DigitVal[s[2]]
    ELSE IF Len(s) = 2 /\ s[1] \in {"1", "2"} /\ s[2] \in Digits
        THEN 10 * DigitVal[s[1]] + DigitVal[s[2]]
    ELSE IF Len(s) = 2 /\ s[1] = "3" /\ s[2] \in {"0", "1"} THEN 30 + DigitVal[s[2]]
    ELSE 0

\* %Y : \d\d\d\d
YearOf(s) ==
    IF Len(s) = 4 /\ isdigit(s)
    THEN 1000 * DigitVal[s[1]] + 100 * DigitVal[s[2]] + 10 * DigitVal[s[3]] + DigitVal[s[4]]
    ELSE 0

ValueError == <<>>

\* the date <<year, month, day>>, or ValueError when strptime / date() raise
strptime(date_str) ==
    IF Len(date_str) < 8 \/ Len(date_str) > 10 \/ date_str[5] # Hyphen THEN ValueError
    ELSE LET p == IF date_str[7] = Hyphen THEN 7 ELSE 8
             y == YearOf(SubSeq(date_str, 1, 4))
             m == IF date_str[p] = Hyphen THEN MonthOf(SubSeq(date_str, 6, p - 1)) ELSE 0
             d == DayOf(SubSeq(date_str, p + 1, Len(date_str)))
         IN  IF SubSeq(date_str, 1, 4) = <<"0", "0", "0", "0">> \/ ~isdigit(SubSeq(date_str, 1, 4))
                \/ m = 0 \/ d = 0
             THEN ValueError
             ELSE IF d > DaysInMonth(y, m) THEN ValueError
             ELSE <<y, m, d>>

\* the comparison written with >= : today itself counts as the future
DateAfter_OrEqual(a, b) ==
    \/ a[1] > b[1]
    \/ a[1] = b[1] /\ a[2] > b[2]
    \/ a[1] = b[1] /\ a[2] = b[2] /\ a[3] >= b[3]

\* date_val > today
DateAfter(a, b) ==
    \/ a[1] > b[1]
    \/ a[1] = b[1] /\ a[2] > b[2]
    \/ a[1] = b[1] /\ a[2] = b[2] /\ a[3] > b[3]

-----------------------------------------------------------------------------
(* validate_employee_form *)

\* the outcome (valid, msg); msg is <<kind, field>>, the empty text when valid
Valid == [valid |-> TRUE, msg |-> <<>>]
Invalid(kind, field) == [valid |-> FALSE, msg |-> <<kind, field>>]

\* the QMessageBox.information a handler ends with after its write
Done(kind) == [valid |-> TRUE, msg |-> <<kind, "employee">>]

\* SELECT id FROM employee WHERE file_no=? [AND id!=?]  ... c.fetchone()
FileNoTaken(file_no, skip_id) ==
    IF skip_id # None
    THEN \E id \in DOMAIN employee : employee[id]["file_no"] = file_no /\ id # skip_id
    ELSE \E id \in DOMAIN employee : employee[id]["file_no"] = file_no

\* the national_id query run against the file_no column
NationalIdTaken_FileNoColumn(national_id, skip_id) ==
    IF skip_id # None
    THEN \E id \in DOMAIN employee : employee[id]["file_no"] = national_id /\ id # skip_id
    ELSE \E id \in DOMAIN employee : employee[id]["file_no"] = national_id

\* SELECT id FROM employee WHERE national_id=? [AND id!=?]  ... c.fetchone()
NationalIdTaken(national_id, skip_id) ==
    IF skip_id # None
    THEN \E id \in DOMAIN employee : employee[id]["national_id"] = national_id /\ id # skip_id
    ELSE \E id \in DOMAIN employee : employee[id]["national_id"] = national_id

\* the body of the loop over date_fields, for one field
CheckDate(field) ==
    LET date_str == strip(form_fields[field])
    IN  IF date_str = <<>> THEN Valid
        ELSE IF strptime(date_str) = ValueError THEN Invalid("format", field)
        ELSE IF DateAfter(strptime(date_str), today) THEN Invalid("future", field)
        ELSE Valid

RECURSIVE CheckDates(_)
CheckDates(k) ==
    IF k > Len(date_fields) THEN Valid
    ELSE IF ~CheckDate(date_fields[k]).valid THEN CheckDate(date_fields[k])
    ELSE CheckDates(k + 1)

\* the phone check moved ahead of the national_id checks
validate_employee_form_PhoneFirst(skip_id) ==
    LET name == strip(form_fields["name"])
        file_no == strip(form_fields["file_no"])
        national_id == strip(form_fields["national_id"])
        phone == strip(form_fields["phone"])
    IN  IF name = <<>> THEN Invalid("required", "name")
        ELSE IF file_no = <<>> THEN Invalid("required", "file_no")
        ELSE IF FileNoTaken(file_no, skip_id) THEN Invalid("duplicate", "file_no")
        ELSE IF phone # <<>> /\ ~isdigit(phone) THEN Invalid("format", "phone")
        ELSE IF national_id = <<>> THEN Invalid("required", "national_id")
        ELSE IF ~(isdigit(national_id) /\ Len(national_id) = NationalIdLen)
            THEN Invalid("format", "national_id")
        ELSE IF NationalIdTaken(national_id, skip_id) THEN Invalid("duplicate", "national_id")
        ELSE CheckDates(1)

validate_employee_form(skip_id) ==
    LET name == strip(form_fields["name"])
        file_no == strip(form_fields["file_no"])
        national_id == strip(form_fields["national_id"])
        phone == strip(form_fields["phone"])
    IN  IF name = <<>> THEN Invalid("required", "name")
        ELSE IF file_no = <<>> THEN Invalid("required", "file_no")
        ELSE IF FileNoTaken(file_no, skip_id) THEN Invalid("duplicate", "file_no")
        ELSE IF national_id = <<>> THEN Invalid("required", "national_id")
        ELSE IF ~(isdigit(national_id) /\ Len(national_id) = NationalIdLen)
            THEN Invalid("format", "national_id")
        ELSE IF NationalIdTaken(national_id, skip_id) THEN Invalid("duplicate", "national_id")
        ELSE IF phone # <<>> /\ ~isdigit(phone) THEN Invalid("format", "phone")
        ELSE CheckDates(1)

-----------------------------------------------------------------------------
(* Bounds and input sets *)

MaxSeq == 2          \* ids handed out by AUTOINCREMENT in a run
MaxPending == 1      \* entries of the in-memory attachment list
MaxRows == 2         \* rows the upload handlers may bring the attachment table to
MaxTextLen == 3      \* length of the texts given to normalize_arabic

Rep(c, n) == [i \in 1..n |-> c]

Nid1 == Rep("1", NationalIdLen)
Nid2 == Rep("2", NationalIdLen)

\* what the user types into the form before pressing a button: the texts of
\* the three required fields (the other fields keep the text they have)
TypedNames == { <<AlefHamzaAbove>>, <<Tatweel>> }
TypedFileNos == { <<"1">>, <<"1", Tatweel>>, <<"2">> }
TypedNationalIds == { Nid1, Nid2, <<Space>> \o Nid1, Nid1 \o <<Tatweel>> }

\* the texts typed where attachments are handled as well: plain texts, which
\* normalize_arabic changes only in the letter of the name
PlainNames == { <<AlefHamzaAbove>> }
PlainFileNos == { <<"1">>, <<"2">> }
PlainNationalIds == { Nid1, Nid2 }

\* the forms typed there, <<name, file_no, national_id>>: a file number is
\* typed together with the national id written with the same digit
PlainForms ==
    { t \in PlainNames \X PlainFileNos \X PlainNationalIds : t[2][1] = t[3][1] }

\* what the user types into the search box
SearchTexts == { <<>>, <<AlefHamzaBelow>>, <<"2">>, <<"_">> }

\* a file the user can pick in a file dialog: its basename and its content
File(name, content) == [name |-> name, content |-> content]

\* files offered by the file dialogs
FileSources == { File(<<"doc">>, "d1") }
PhotoSources == { File(<<"pic">>, "p1") }

\* files of different folders that share a basename, and a regular file whose
\* basename is the one upload_photo gives to the picture
ClashingFiles == { File(<<"doc">>, "d1"), File(<<"doc">>, "d2"),
                   File(<<"photo_", "pic">>, "d3") }
ClashingPhotos == { File(<<"pic">>, "p1"), File(<<"pic">>, "p2") }

\* what one file dialog of upload_files returns
Selections(sources) == { <<>> } \cup { <<f>> : f \in sources }
FileSelections == Selections(FileSources)

\* how  open(f, "rb") ... open(dest, "wb") ... dst.write(src.read())  ends:
\* the copy is made; the source cannot be opened and nothing is written; the
\* destination is created and the read or the write raises
CopyOutcomes == {"copied", "unreadable", "truncated"}

\* the copies that leave no half-written file
CleanOutcomes == {"copied", "unreadable"}

\* the content of a destination whose copy stopped half way
Truncated == "truncated"

\* os.path.join(get_employee_folder(file_no), fname)
Dest(file_no, fname) == <<file_no, fname>>

-----------------------------------------------------------------------------
(* Queries *)

Max(S) == CHOOSE x \in S : \A y \in S : y <= x
Min(S) == CHOOSE x \in S : \A y \in S : x <= y

\* rows come back in rowid order
RECURSIVE SortedIds(_)
SortedIds(S) ==
    IF S = {} THEN <<>> ELSE <<Min(S)>> \o SortedIds(S \ {Min(S)})

\* SELECT id, ... FROM employee
list_employees == SortedIds(DOMAIN employee)

\* SQLite LIKE folds the case of ASCII letters only
Fold(c) == IF c = "A" THEN "a" ELSE c

\* SQLite's  text LIKE pattern  with the wildcards % and _
RECURSIVE Like(_, _)
Like(pattern, s) ==
    IF pattern = <<>> THEN s = <<>>
    ELSE IF Head(pattern) = "%"
        THEN Like(Tail(pattern), s) \/ (s # <<>> /\ Like(pattern, Tail(s)))
    ELSE IF s = <<>> THEN FALSE
    ELSE IF Head(pattern) = "_" THEN Like(Tail(pattern), Tail(s))
    ELSE Fold(Head(pattern)) = Fold(Head(s)) /\ Like(Tail(pattern), Tail(s))

\* the search text put into the pattern as typed, not normalized
SearchIds_Raw(search_text) ==
    LET like_text == <<"%">> \o search_text \o <<"%">>
    IN  { id \in DOMAIN employee :
            \/ Like(like_text, employee[id]["name"])
            \/ Like(like_text, employee[id]["department"])
            \/ Like(like_text, employee[id]["file_no"])
            \/ Like(like_text, employee[id]["national_id"]) }

\* the ids selected by search_employees(search_text)
SearchIds(search_text) ==
    LET like_text == <<"%">> \o normalize_arabic(search_text) \o <<"%">>
    IN  { id \in DOMAIN employee :
            \/ Like(like_text, employee[id]["name"])
            \/ Like(like_text, employee[id]["department"])
            \/ Like(like_text, employee[id]["file_no"])
            \/ Like(like_text, employee[id]["national_id"]) }

\* the attachment rows of one employee, in table order
RowsOf(emp_id) == SelectSeq(attachment, LAMBDA r : r.employee_id = emp_id)

\* the DELETE without its WHERE clause
DeleteRowsOf_All(emp_id) == <<>>

\* the DELETE on the attachment table left out
DeleteRowsOf_Forgotten(emp_id) == attachment

\* DELETE FROM attachment WHERE employee_id=?
DeleteRowsOf(emp_id) == SelectSeq(attachment, LAMBDA r : r.employee_id # emp_id)

\* the row inserted by the upload handlers (the columns filetype and
\* upload_date are written here and read nowhere: they are left out)
UploadRow(emp_id, fname, dest, is_photo) ==
    [employee_id |-> emp_id, filename |-> fname, filepath |-> dest, is_photo |-> is_photo]

\* the rows inserted by add_employee / edit_employee from self.attachments
SavedRows(emp_id) ==
    [i \in 1..Len(attachments) |->
        [employee_id |-> emp_id, filename |-> attachments[i][1],
         filepath |-> attachments[i][2],
         is_photo |-> IF attachments[i][2] = photo_path THEN 1 ELSE 0]]

\* the values written by add_employee / edit_employee
vals == [f \in FieldNames |-> normalize_arabic(form_fields[f])]

\* the photo path load_attachments ends with: the last row flagged is_photo
RECURSIVE LastPhoto(_)
LastPhoto(rows) ==
    IF rows = <<>> THEN NoPath
    ELSE IF rows[Len(rows)].is_photo # 0 THEN rows[Len(rows)].filepath
    ELSE LastPhoto(SubSeq(rows, 1, Len(rows) - 1))

Op(name, outcome) == [op |-> name, valid |-> outcome.valid, msg |-> outcome.msg]

\* lastOp after a handler that neither validates nor writes employee rows
Other == Op("other", Valid)

-----------------------------------------------------------------------------
(* State after construction: a fresh database, an empty form *)

Init ==
    /\ employee = <<>>
    /\ attachment = <<>>
    /\ seq = 0
    /\ form_fields = EmptyForm
    /\ selected_emp_id = None
    /\ attachments = <<>>
    /\ photo_path = NoPath
    /\ table = <<>>
    /\ today = <<2026, 11, 3>>
    /\ lastOp = Op("init", Valid)
    /\ deleted = {}
    /\ disk = <<>>
    /\ text = <<>>
    /\ result = [done |-> FALSE, value |-> <<>>]

-----------------------------------------------------------------------------
(* The handlers of EmployeeTab *)

\* the user edits the required fields of the form
setText(name, file_no, national_id) ==
    /\ form_fields' = [form_fields EXCEPT !["name"] = name, !["file_no"] = file_no,
                                          !["national_id"] = national_id]
    /\ lastOp' = Other
    /\ UNCHANGED <<employee, attachment, seq, selected_emp_id, attachments,
                   photo_path, table, today, deleted, disk, text, result>>

on_row_select(row) ==
    /\ row \in 1..Len(table)
    /\ table[row] \in DOMAIN employee
    /\ LET emp_id == table[row]
           rows == RowsOf(emp_id)
       IN  /\ form_fields' = employee[emp_id]
           /\ selected_emp_id' = emp_id
           \* load_attachments(emp_id)
           /\ attachments' = [i \in 1..Len(rows) |-> <<rows[i].filename, rows[i].filepath>>]
           /\ photo_path' = LastPhoto(rows)
    /\ lastOp' = Other
    /\ UNCHANGED <<employee, attachment, seq, table, today, deleted, disk, text, result>>

\* the loop of upload_files over the chosen files; outcomes[k] is how the copy
\* of files[k] ends when it is attempted; a file whose copy raises is skipped
RECURSIVE UploadLoop(_, _, _, _, _, _, _)
UploadLoop(files, outcomes, file_no, k, list, rows, files_on_disk) ==
    IF k > Len(files) THEN [list |-> list, rows |-> rows, disk |-> files_on_disk]
    ELSE LET fname == files[k].name
             dest == Dest(file_no, fname)
             exists == dest \in DOMAIN files_on_disk
         IN  IF ~exists /\ outcomes[k] = "unreadable"
             THEN UploadLoop(files, outcomes, file_no, k + 1, list, rows, files_on_disk)
             ELSE IF ~exists /\ outcomes[k] = "truncated"
             THEN UploadLoop(files, outcomes, file_no, k + 1, list, rows,
                      (dest :> Truncated) @@ files_on_disk)
             ELSE UploadLoop(files, outcomes, file_no, k + 1,
                      Append(list, <<fname, dest>>),
                      IF selected_emp_id # None
                      THEN Append(rows, UploadRow(selected_emp_id, fname, dest, 0))
                      ELSE rows,
                      IF exists THEN files_on_disk
                      ELSE (dest :> files[k].content) @@ files_on_disk)

upload_files(files, outcomes) ==
    LET file_no == form_fields["file_no"]
        done == UploadLoop(files, outcomes, file_no, 1, attachments, attachment, disk)
    IN  IF file_no = <<>>
        THEN /\ lastOp' = Other
             /\ UNCHANGED <<employee, attachment, seq, form_fields, selected_emp_id,
                            attachments, photo_path, table, today, deleted, disk, text, result>>
        ELSE /\ Len(attachments) + Len(files) <= MaxPending
             /\ Len(attachment) + Len(files) <= MaxRows
             /\ attachments' = done.list
             /\ attachment' = done.rows
             /\ disk' = done.disk
             /\ lastOp' = Other
             /\ UNCHANGED <<employee, seq, form_fields, selected_emp_id, photo_path,
                            table, today, deleted, text, result>>

\* open(dest, "wb") ... dst.write(src.read())  of upload_photo
PhotoCopy(f, dest) == (dest :> f.content) @@ disk

upload_photo(f, outcome) ==
    LET file_no == form_fields["file_no"]
        fname == <<"photo_">> \o f.name
        dest == Dest(file_no, fname)
    IN  IF file_no = <<>>
        THEN /\ lastOp' = Other
             /\ UNCHANGED <<employee, attachment, seq, form_fields, selected_emp_id,
                            attachments, photo_path, table, today, deleted, disk, text, result>>
        ELSE IF outcome = "unreadable"
        THEN \* open(f, "rb") raises: the handler ends there
             /\ lastOp' = Other
             /\ UNCHANGED <<employee, attachment, seq, form_fields, selected_emp_id,
                            attachments, photo_path, table, today, deleted, disk, text, result>>
        ELSE IF outcome = "truncated"
        THEN \* the destination is opened for writing, then read() or write() raises
             /\ disk' = (dest :> Truncated) @@ disk
             /\ lastOp' = Other
             /\ UNCHANGED <<employee, attachment, seq, form_fields, selected_emp_id,
                            attachments, photo_path, table, today, deleted, text, result>>
        ELSE /\ selected_emp_id # None => Len(attachment) < MaxRows
             /\ disk' = PhotoCopy(f, dest)
             /\ photo_path' = dest
             /\ attachment' = IF selected_emp_id # None
                              THEN Append(attachment, UploadRow(selected_emp_id, fname, dest, 1))
                              ELSE attachment
             /\ lastOp' = Other
             /\ UNCHANGED <<employee, seq, form_fields, selected_emp_id, attachments,
                            table, today, deleted, text, result>>

\* clear_form without  self.selected_emp_id = None
ClearedForm_KeepsSelection ==
    /\ form_fields' = EmptyForm
    /\ attachments' = <<>>
    /\ photo_path' = NoPath
    /\ selected_emp_id' = selected_emp_id

\* clear_form without  self.attachments = []
ClearedForm_KeepsList ==
    /\ form_fields' = EmptyForm
    /\ attachments' = attachments
    /\ photo_path' = NoPath
    /\ selected_emp_id' = None

\* clear_form, as the handlers call it after a write
ClearedForm ==
    /\ form_fields' = EmptyForm
    /\ attachments' = <<>>
    /\ photo_path' = NoPath
    /\ selected_emp_id' = None

\* UPDATE employee SET ... WHERE id=?
UpdateRow(emp_id, row) ==
    IF emp_id \in DOMAIN employee THEN [employee EXCEPT ![emp_id] = row] ELSE employee

\* the id of an INTEGER PRIMARY KEY without AUTOINCREMENT: largest id in the table + 1
NewId_MaxPlusOne == IF DOMAIN employee = {} THEN 1 ELSE Max(DOMAIN employee) + 1

\* c.lastrowid of an INSERT into a table with INTEGER PRIMARY KEY AUTOINCREMENT
NewId == seq + 1

\* a refusal that also clears the form, as the successful paths do
Rejected_ClearsForm(name, outcome) ==
    /\ lastOp' = Op(name, outcome)
    /\ ClearedForm
    /\ UNCHANGED <<employee, attachment, seq, table, today, deleted, disk, text, result>>

\* the outcome of a handler that validation stopped: nothing but the message box
Rejected(name, outcome) ==
    /\ lastOp' = Op(name, outcome)
    /\ UNCHANGED <<employee, attachment, seq, form_fields, selected_emp_id, attachments,
                   photo_path, table, today, deleted, disk, text, result>>

add_employee ==
    LET outcome == validate_employee_form(selected_emp_id)
    IN  IF ~outcome.valid THEN Rejected("add_employee", outcome)
        ELSE IF selected_emp_id # None
        THEN /\ employee' = UpdateRow(selected_emp_id, vals)
             /\ attachment' = DeleteRowsOf(selected_emp_id) \o SavedRows(selected_emp_id)
             /\ table' = SortedIds(DOMAIN employee')
             /\ ClearedForm
             /\ lastOp' = Op("add_employee", Done("updated"))
             /\ UNCHANGED <<seq, today, deleted, disk, text, result>>
        ELSE /\ seq < MaxSeq
             /\ employee' = (NewId :> vals) @@ employee
             /\ seq' = NewId
             /\ attachment' = attachment \o SavedRows(NewId)
             /\ table' = SortedIds(DOMAIN employee')
             /\ ClearedForm
             /\ lastOp' = Op("add_employee", Done("added"))
             /\ UNCHANGED <<today, deleted, disk, text, result>>

edit_employee ==
    IF selected_emp_id = None
    THEN Rejected("edit_employee", Invalid("select", "employee"))
    ELSE LET outcome == validate_employee_form(selected_emp_id)
         IN  IF ~outcome.valid THEN Rejected("edit_employee", outcome)
             ELSE /\ employee' = UpdateRow(selected_emp_id, vals)
                  /\ attachment' = DeleteRowsOf(selected_emp_id) \o SavedRows(selected_emp_id)
                  /\ table' = SortedIds(DOMAIN employee')
                  /\ ClearedForm
                  /\ lastOp' = Op("edit_employee", Done("edited"))
                  /\ UNCHANGED <<seq, today, deleted, disk, text, result>>

\* reply: the answer to the confirmation box
delete_employee(reply) ==
    IF selected_emp_id = None
    THEN Rejected("delete_employee", Invalid("select", "employee"))
    ELSE IF ~reply
    THEN Rejected("delete_employee", Invalid("declined", "employee"))
    ELSE /\ employee' = [id \in DOMAIN employee \ {selected_emp_id} |-> employee[id]]
         /\ attachment' = DeleteRowsOf(selected_emp_id)
         /\ table' = SortedIds(DOMAIN employee')
         /\ ClearedForm
         /\ deleted' = deleted \cup {selected_emp_id}
         /\ lastOp' = Op("delete_employee", Done("deleted"))
         /\ UNCHANGED <<seq, today, disk, text, result>>

clear_form ==
    /\ ClearedForm
    /\ lastOp' = Other
    /\ UNCHANGED <<employee, attachment, seq, table, today, deleted, disk, text, result>>

search_employees(search_text) ==
    /\ table' = SortedIds(SearchIds(search_text))
    /\ lastOp' = [op |-> "search_employees", valid |-> TRUE, msg |-> search_text]
    /\ UNCHANGED <<employee, attachment, seq, form_fields, selected_emp_id, attachments,
                   photo_path, today, deleted, disk, text, result>>

Next ==
    \/ \E t \in PlainForms : setText(t[1], t[2], t[3])
    \/ \E row \in 1..MaxSeq : on_row_select(row)
    \/ \E files \in FileSelections : \E outcomes \in [1..Len(files) -> CleanOutcomes] :
           upload_files(files, outcomes)
    \/ \E f \in PhotoSources : \E outcome \in CleanOutcomes : upload_photo(f, outcome)
    \/ add_employee
    \/ edit_employee
    \/ \E reply \in BOOLEAN : delete_employee(reply)
    \/ clear_form
    \/ \E search_text \in SearchTexts : search_employees(search_text)

Spec == Init /\ [][Next]_vars

\* the handlers of the form and its attachments: the table shows what
\* load_employees put there
NextAttach ==
    \/ \E t \in PlainForms : setText(t[1], t[2], t[3])
    \/ \E row \in 1..MaxSeq : on_row_select(row)
    \/ \E files \in FileSelections : \E outcomes \in [1..Len(files) -> CleanOutcomes] :
           upload_files(files, outcomes)
    \/ \E f \in PhotoSources : \E outcome \in CleanOutcomes : upload_photo(f, outcome)
    \/ add_employee
    \/ edit_employee
    \/ \E reply \in BOOLEAN : delete_employee(reply)
    \/ clear_form

SpecAttach == Init /\ [][NextAttach]_vars

\* the handlers around search: records with regular attachments, no photo
NextSearch ==
    \/ \E t \in PlainForms : setText(t[1], t[2], t[3])
    \/ \E row \in 1..MaxSeq : on_row_select(row)
    \/ \E files \in FileSelections : \E outcomes \in [1..Len(files) -> CleanOutcomes] :
           upload_files(files, outcomes)
    \/ add_employee
    \/ edit_employee
    \/ \E reply \in BOOLEAN : delete_employee(reply)
    \/ clear_form
    \/ \E search_text \in SearchTexts : search_employees(search_text)

SpecSearch == Init /\ [][NextSearch]_vars

\* the handlers that read and write employee rows only, with field texts that
\* normalize_arabic changes
NextRecords ==
    \/ \E name \in TypedNames : \E file_no \in TypedFileNos :
           \E national_id \in TypedNationalIds : setText(name, file_no, national_id)
    \/ \E row \in 1..MaxSeq : on_row_select(row)
    \/ add_employee
    \/ edit_employee
    \/ \E reply \in BOOLEAN : delete_employee(reply)
    \/ clear_form
    \/ \E search_text \in SearchTexts : search_employees(search_text)

SpecRecords == Init /\ [][NextRecords]_vars

\* the handlers that copy files, with sources that share destination names
NextFiles ==
    \/ \E t \in PlainForms : setText(t[1], t[2], t[3])
    \/ \E files \in Selections(ClashingFiles) :
           \E outcomes \in [1..Len(files) -> CopyOutcomes] : upload_files(files, outcomes)
    \/ \E f \in ClashingPhotos : \E outcome \in CopyOutcomes : upload_photo(f, outcome)
    \/ clear_form

SpecFiles == Init /\ [][NextFiles]_vars

-----------------------------------------------------------------------------
(* The normalizer on its own: every text up to MaxTextLen over NormChars *)

NormChars ==
    { Tatweel, AlefHamzaAbove, AlefHamzaBelow, AlefMadda, Alef, TehMarbuta, Heh,
      AlefMaksura, Yeh, Space, "1" }

Texts(n) == UNION { [1..k -> NormChars] : k \in 0..n }

InitNormalize ==
    /\ employee = <<>>
    /\ attachment = <<>>
    /\ seq = 0
    /\ form_fields = EmptyForm
    /\ selected_emp_id = None
    /\ attachments = <<>>
    /\ photo_path = NoPath
    /\ table = <<>>
    /\ today = <<2026, 11, 3>>
    /\ lastOp = Op("init", Valid)
    /\ deleted = {}
    /\ disk = <<>>
    /\ text \in Texts(MaxTextLen)
    /\ result = [done |-> FALSE, value |-> <<>>]

\* result = normalize_arabic(text)
Normalize ==
    /\ ~result.done
    /\ result' = [done |-> TRUE, value |-> normalize_arabic(text)]
    /\ UNCHANGED <<employee, attachment, seq, form_fields, selected_emp_id, attachments,
                   photo_path, table, today, lastOp, deleted, disk, text>>

\* the result is stored and read back as the next argument
Renormalize ==
    /\ result.done
    /\ text' = result.value
    /\ result' = [done |-> TRUE, value |-> normalize_arabic(result.value)]
    /\ UNCHANGED <<employee, attachment, seq, form_fields, selected_emp_id, attachments,
                   photo_path, table, today, lastOp, deleted, disk>>

NextNormalize == Normalize \/ Renormalize

SpecNormalize == InitNormalize /\ [][NextNormalize]_vars

-----------------------------------------------------------------------------
(* Validation on its own: validate_employee_form applied to field sets drawn *)
(* from the sets below, against stores that add_employee produces           *)

RowA == [EmptyForm EXCEPT !["name"] = <<Alef>>, !["file_no"] = <<"1">>,
                          !["national_id"] = Nid1]
RowB == [EmptyForm EXCEPT !["name"] = <<Alef>>, !["file_no"] = <<"2">>,
                          !["national_id"] = Nid2]

SeedStores == { <<>>, (1 :> RowA), (1 :> RowA) @@ (2 :> RowB) }

Nid14 == <<"1", "2", "3", "4", "5", "6", "7", "8", "9", "0", "1", "2", "3", "4">>

D_2000_01_01 == <<"2", "0", "0", "0", "-", "0", "1", "-", "0", "1">>
D_2999_01_01 == <<"2", "9", "9", "9", "-", "0", "1", "-", "0", "1">>
D_2000_1_1 == <<"2", "0", "0", "0", "-", "1", "-", "1">>
D_2000_01_s1 == <<"2", "0", "0", "0", "-", "0", "1", "-", Space, "1">>
D_2000_02_30 == <<"2", "0", "0", "0", "-", "0", "2", "-", "3", "0">>
D_2000_13_01 == <<"2", "0", "0", "0", "-", "1", "3", "-", "0", "1">>

VNames == { <<>>, <<Space>>, <<AlefHamzaAbove>> }
VFileNos == { <<>>, <<"1">>, <<"3">> }
VNationalIds == { <<>>, <<"1", "2", "3", "4", "5">>, Nid1, Nid14, Rep("3", 13) \o <<"a">> }
VPhones == { <<>>, <<"0", "1">>, <<"0", "a">> }
VGradeDates == { <<>>, D_2000_01_01, D_2999_01_01, D_2000_1_1 }
VHireDates == { <<>>, D_2000_01_01, D_2999_01_01, D_2000_02_30, D_2000_01_s1 }
VBirthDates == { <<>>, D_2000_01_01, D_2999_01_01, D_2000_13_01 }

VForms ==
    { [EmptyForm EXCEPT !["name"] = n, !["file_no"] = f, !["national_id"] = i,
                        !["phone"] = p, !["grade_date"] = g, !["hire_date"] = h,
                        !["birth_date"] = b] :
        n \in VNames, f \in VFileNos, i \in VNationalIds, p \in VPhones,
        g \in VGradeDates, h \in VHireDates, b \in VBirthDates }

Todays == { <<2026, 11, 3>>, <<2000, 1, 1>> }

InitValidate ==
    /\ employee \in SeedStores
    /\ attachment = <<>>
    /\ seq = Cardinality(DOMAIN employee)
    /\ form_fields \in VForms
    /\ selected_emp_id \in {None} \cup DOMAIN employee
    /\ attachments = <<>>
    /\ photo_path = NoPath
    /\ table = SortedIds(DOMAIN employee)
    /\ today \in Todays
    /\ lastOp = Op("init", Valid)
    /\ deleted = {}
    /\ disk = <<>>
    /\ text = <<>>
    /\ result = [done |-> FALSE, value |-> <<>>]

\* valid, msg = self.validate_employee_form(self.selected_emp_id)
Validate ==
    /\ lastOp.op = "init"
    /\ lastOp' = Op("validate_employee_form", validate_employee_form(selected_emp_id))
    /\ UNCHANGED <<employee, attachment, seq, form_fields, selected_emp_id, attachments,
                   photo_path, table, today, deleted, disk, text, result>>

NextValidate == Validate

SpecValidate == InitValidate /\ [][NextValidate]_vars

-----------------------------------------------------------------------------
(* Claims about the stored records *)

Ids == DOMAIN employee

\* every id a record has or had
EverIds == Ids \cup deleted

\* C1: no two stored employee records have the same stored file_no.
C1_FileNoUnique ==
    \A a \in Ids : \A b \in Ids :
        a # b => employee[a]["file_no"] # employee[b]["file_no"]

\* C2: no two stored employee records have the same stored national_id.
C2_NationalIdUnique ==
    \A a \in Ids : \A b \in Ids :
        a # b => employee[a]["national_id"] # employee[b]["national_id"]

\* two records are stored and a write was just refused for a national_id that
\* another record holds
C2_Witness ==
    /\ Cardinality(Ids) = 2
    /\ lastOp.msg = <<"duplicate", "national_id">>

\* C3: every stored record has a non-empty stored name, file_no and national_id.
C3_RequiredNonEmpty ==
    \A id \in Ids :
        /\ employee[id]["name"] # <<>>
        /\ employee[id]["file_no"] # <<>>
        /\ employee[id]["national_id"] # <<>>

\* what a successful insert of add_employee does to the store and the list
AddInserted ==
    /\ Cardinality(Ids') = Cardinality(Ids) + 1
    /\ \E new \in Ids' \ EverIds :
        /\ Ids' = Ids \cup {new}
        /\ employee'[new] = vals
    /\ Cardinality({ i \in 1..Len(table') : employee'[table'[i]] = vals }) = 1
    /\ \A id \in Ids : employee'[id] = employee[id]

\* a step of add_employee that passed validation
AddPassed == lastOp'.op = "add_employee" /\ lastOp'.valid

\* C4 as stated: in whatever form state add_employee is invoked, a field set
\* that passes validation is inserted as a new record.
C4_AddAlwaysInserts == [][AddPassed => AddInserted]_vars

\* C4 amended: with no employee selected, a field set that passes validation
\* is inserted as a new record (one more record, an id no record ever had,
\* exactly one listed record equal to the normalized input, the others
\* untouched); with an employee selected, add_employee overwrites that record
\* and the set of ids is unchanged.
C4_AddInsertsWhenNoneSelected ==
    [][AddPassed =>
        IF selected_emp_id = None
        THEN AddInserted
        ELSE /\ Ids' = Ids
             /\ employee'[selected_emp_id] = vals
             /\ \A id \in Ids \ {selected_emp_id} : employee'[id] = employee[id]]_vars

\* a second record was inserted after an earlier one had been deleted
C4_Witness ==
    /\ lastOp = Op("add_employee", Done("added"))
    /\ Cardinality(Ids) = 1
    /\ deleted # {}

\* C5: an update of a selected record whose form holds the record's own
\* file_no and national_id (and a name) passes validation, and an update whose
\* form holds the file_no or the national_id of a different stored record is
\* refused.
C5_OwnRowExcluded ==
    selected_emp_id \in Ids =>
        /\ (/\ strip(form_fields["file_no"]) = employee[selected_emp_id]["file_no"]
            /\ strip(form_fields["national_id"]) = employee[selected_emp_id]["national_id"]
            /\ strip(form_fields["name"]) # <<>>)
           => validate_employee_form(selected_emp_id).valid
        /\ (\E other \in Ids \ {selected_emp_id} :
                \/ strip(form_fields["file_no"]) = employee[other]["file_no"]
                \/ strip(form_fields["national_id"]) = employee[other]["national_id"])
           => ~validate_employee_form(selected_emp_id).valid

\* C6: after a confirmed delete_employee(id) the store has no employee row and
\* no attachment row of that id, and no list or search result contains it.
C6_DeletedStaysGone ==
    \A id \in deleted :
        /\ id \notin Ids
        /\ \A i \in 1..Len(attachment) : attachment[i].employee_id # id
        /\ \A i \in 1..Len(table) : table[i] # id
        /\ \A i \in 1..Len(list_employees) : list_employees[i] # id
        /\ \A q \in SearchTexts : id \notin SearchIds(q)

\* an employee was deleted, and a later employee with an attachment row exists
C6_Witness ==
    /\ deleted # {}
    /\ Ids # {}
    /\ attachment # <<>>
    /\ table # <<>>

\* C7: when validation fails in add_employee or edit_employee, both tables and
\* the form state (selected id, pending attachments, photo path) are unchanged.
C7_RejectedWritesNothing ==
    [][(/\ lastOp'.op \in {"add_employee", "edit_employee"}
        /\ ~validate_employee_form(selected_emp_id).valid)
       => UNCHANGED <<employee, attachment, seq, selected_emp_id, attachments,
                      photo_path, disk>>]_vars

\* a write of a selected employee with a pending attachment and stored rows
\* was refused by validation
C7_Witness ==
    /\ lastOp.op \in {"add_employee", "edit_employee"}
    /\ ~lastOp.valid
    /\ lastOp.msg[1] \in {"required", "duplicate", "format"}
    /\ selected_emp_id # None
    /\ attachments # <<>>
    /\ attachment # <<>>

-----------------------------------------------------------------------------
(* Claims about search *)

\* the last handler run was search_employees; lastOp.msg is its search text
Searched == lastOp.op = "search_employees"

\* the ids in the table widget
Shown == { table[i] : i \in 1..Len(table) }

\* the queries compared with the one that was run
QueryTexts == Texts(2) \cup SearchTexts

\* C11: two queries with the same normal form return the same result set (the
\* result of the search just run is the result of every query with the same
\* normal form), and a record just added with name n is returned by
\* search_employees(n).
C11_SameCanonicalSpace ==
    /\ [](Searched =>
            \A q2 \in QueryTexts :
                normalize_arabic(q2) = normalize_arabic(lastOp.msg)
                    => Shown = SearchIds(q2))
    /\ [][(AddPassed /\ selected_emp_id = None) =>
            \E n \in TypedNames :
                /\ n = form_fields["name"]
                /\ (seq \in SearchIds(n))']_vars

\* a search by a hamza-bearing alef found a record whose name was typed with
\* another alef variant and stored as the bare alef
C11_Witness ==
    /\ Searched /\ lastOp.msg = <<AlefHamzaBelow>>
    /\ \E id \in Shown : employee[id]["name"] = <<Alef>>

\* sub occurs in s as a literal, case-sensitive substring
Contains(s, sub) ==
    \E i \in 0..(Len(s) - Len(sub)) : SubSeq(s, i + 1, i + Len(sub)) = sub

\* C12: search_employees(query) returns exactly the stored records of which
\* name, department, file_no or national_id contains normalize(query) as a
\* case-sensitive literal substring, % and _ matched literally.
C12_LiteralSubstring ==
    Searched =>
        Shown = { id \in Ids :
                    \E f \in {"name", "department", "file_no", "national_id"} :
                        Contains(employee[id][f], normalize_arabic(lastOp.msg)) }

-----------------------------------------------------------------------------
(* Claims about the attachment files *)

\* C13: a file that exists in an employee's folder keeps its content: no later
\* upload of a regular file or of a photo with the same destination filename
\* overwrites it.
C13_NeverOverwrites ==
    [][\A dest \in DOMAIN disk :
          dest \in DOMAIN disk' /\ disk'[dest] = disk[dest]]_vars

-----------------------------------------------------------------------------
(* Claims about the attachment rows *)

\* a step of upload_files that lists at least one file
UploadedFiles ==
    /\ Len(attachments') > Len(attachments)
    /\ selected_emp_id' = selected_emp_id
    /\ \E files \in FileSelections : \E outcomes \in [1..Len(files) -> CleanOutcomes] :
           upload_files(files, outcomes)

\* a step of add_employee that inserted a new employee
AddedNew == AddPassed /\ selected_emp_id = None

\* the rows of emp_id are the entries <<filename, path>> of list, one row per
\* entry, in the order of the list
RowsAreEntries(rows, emp_id, list) ==
    /\ Len(rows) = Len(list)
    /\ \A i \in 1..Len(rows) :
        /\ rows[i].employee_id = emp_id
        /\ <<rows[i].filename, rows[i].filepath>> = list[i]

\* C14: with no employee selected, upload_files inserts no attachment row and
\* appends to the pending list only; a successful add_employee then inserts
\* exactly one row per pending entry under the new id, leaves the other rows
\* alone and empties the pending list.
C14_PendingFlushedOnce ==
    /\ [][(selected_emp_id = None /\ UploadedFiles) =>
            /\ attachment' = attachment
            /\ SubSeq(attachments', 1, Len(attachments)) = attachments]_vars
    /\ [][AddedNew =>
            \E list \in {attachments} :
                /\ RowsAreEntries(RowsOf(seq), seq, list)'
                /\ Len(attachment') = Len(attachment) + Len(list)
                /\ SubSeq(attachment', 1, Len(attachment)) = attachment
                /\ attachments' = <<>>]_vars

\* a new employee was added with the file that was pending as its only row
C14_Witness ==
    /\ lastOp = Op("add_employee", Done("added"))
    /\ Len(RowsOf(seq)) = 1
    /\ attachments = <<>>

\* a step of add_employee or edit_employee that wrote the form to the store
Saved == lastOp'.op \in {"add_employee", "edit_employee"} /\ lastOp'.valid

\* a step of add_employee or edit_employee that updated the selected employee
Updated == Saved /\ selected_emp_id # None

\* the rows of emp_id flagged as its photo
PhotoRows(emp_id) == SelectSeq(RowsOf(emp_id), LAMBDA r : r.is_photo # 0)

\* C15: a photo uploaded for an employee, before add_employee in the new-record
\* flow or before the update of a selected employee, is recorded after that add
\* or update by an attachment row of that employee, flagged as its photo, whose
\* path is that of the photo.
C15_PhotoTracked ==
    [][(Saved /\ photo_path # NoPath) =>
        \E path \in {photo_path} : \E emp_id \in {selected_emp_id, seq'} :
            /\ selected_emp_id # None => emp_id = selected_emp_id
            /\ selected_emp_id = None => emp_id = seq'
            /\ \E i \in 1..Len(attachment') :
                /\ attachment'[i].employee_id = emp_id
                /\ attachment'[i].filepath = path
                /\ attachment'[i].is_photo # 0]_vars

\* C16: at most one attachment row per employee is flagged as its photo.
C16_AtMostOnePhoto ==
    \A emp_id \in 1..seq : Len(PhotoRows(emp_id)) <= 1

\* C17: right after a successful update of employee e, the rows of e are
\* exactly the entries <<filename, path>> of the in-memory attachment list at
\* the time of the update, one row per entry, and the rows of the other
\* employees are unchanged.
C17_ReplacedWholesale ==
    [][Updated =>
        \E e \in {selected_emp_id} : \E list \in {attachments} :
            /\ RowsAreEntries(RowsOf(e), e, list)'
            /\ \A other \in (1..seq) \ {e} : RowsOf(other)' = RowsOf(other)]_vars

\* a stored row of the updated employee (a photo uploaded while it was
\* selected) was not in the list and is gone, the other employee has its row
C17_Witness ==
    /\ lastOp \in {Op("add_employee", Done("updated")), Op("edit_employee", Done("edited"))}
    /\ \E e \in Ids : \E other \in Ids :
        /\ e # other
        /\ RowsOf(e) = <<>>
        /\ RowsOf(other) # <<>>
        /\ Dest(employee[e]["file_no"], <<"photo_", "pic">>) \in DOMAIN disk

\* C18: every attachment row is owned by an employee row that exists, and the
\* selected id the uploads use is the id of an existing employee.
C18_NoOrphanRows ==
    /\ \A i \in 1..Len(attachment) : attachment[i].employee_id \in Ids
    /\ selected_emp_id # None => selected_emp_id \in Ids

\* an employee was deleted, and after that a file was uploaded for a selected
\* employee, whose row is in the table
C18_Witness ==
    /\ deleted # {}
    /\ selected_emp_id # None
    /\ attachments # <<>>
    /\ RowsOf(selected_emp_id) # <<>>

-----------------------------------------------------------------------------
(* Claims about the normalizer *)

\* C10: normalize_arabic is idempotent: normalizing a result returns it unchanged.
C10_NormalizeIdempotent ==
    result.done => normalize_arabic(result.value) = result.value

\* a text mixing tatweel, a letter variant and outer whitespace was normalized
C10_Witness ==
    /\ result.done
    /\ \E i \in 1..Len(text) : text[i] = Tatweel
    /\ \E i \in 1..Len(text) : text[i] \in {AlefHamzaAbove, AlefHamzaBelow, AlefMadda,
                                            TehMarbuta, AlefMaksura}
    /\ text[1] = Space \/ text[Len(text)] = Space
    /\ result.value # text

-----------------------------------------------------------------------------
(* Claims about validation *)

\* the field texts validation is about: the form texts without outer whitespace
Field(f) == strip(form_fields[f])

AllNumeric(s) == \A i \in 1..Len(s) : s[i] \in Digits

\* a row other than excluding_id holds value v in column f
OtherRowHas(f, v, excluding_id) ==
    \E id \in Ids \ {excluding_id} : employee[id][f] = v

DigitChars == <<"0", "1", "2", "3", "4", "5", "6", "7", "8", "9">>
DigitChar(n) == DigitChars[n + 1]
TwoDigits(n) == <<DigitChar(n \div 10), DigitChar(n % 10)>>

\* the year a text starts with, 0 when it does not start with four digits
YearWritten(s) ==
    IF Len(s) >= 4 /\ AllNumeric(SubSeq(s, 1, 4))
    THEN DigitVal[s[1]] * 1000 + DigitVal[s[2]] * 100 + DigitVal[s[3]] * 10 + DigitVal[s[4]]
    ELSE 0

StartsWith(s, pre) == Len(s) >= Len(pre) /\ SubSeq(s, 1, Len(pre)) = pre

\* the text of s up to the day, when its month is written mt
UpToDay(s, mt) == SubSeq(s, 1, 4) \o <<Hyphen>> \o mt \o <<Hyphen>>

\* the calendar dates <<year, month, day>> that s writes when months are
\* written as MT(month) and days as DT(day): no date or one
DatesWritten(s, MT(_), DT(_)) ==
    IF YearWritten(s) < 1 THEN {}
    ELSE UNION {
        { <<YearWritten(s), m, d>> :
            d \in { d \in 1..DaysInMonth(YearWritten(s), m) :
                      \E mt \in MT(m) : \E dt \in DT(d) : s = UpToDay(s, mt) \o dt } } :
        m \in { m \in 1..12 : \E mt \in MT(m) : StartsWith(s, UpToDay(s, mt)) } }

\* YYYY-MM-DD: month and day written with two digits
IsoMonth(m) == {TwoDigits(m)}
IsoDay(d) == {TwoDigits(d)}

\* the ways %Y-%m-%d reads a month and a day: with or without the leading
\* zero, a one-digit day also after a space
MonthTexts(m) == {TwoDigits(m)} \cup (IF m <= 9 THEN {<<DigitChar(m)>>} ELSE {})
DayTexts(d) ==
    {TwoDigits(d)} \cup (IF d <= 9 THEN {<<DigitChar(d)>>, <<Space, DigitChar(d)>>} ELSE {})

NotLater(ymd, day) ==
    ymd[1] * 10000 + ymd[2] * 100 + ymd[3] <= day[1] * 10000 + day[2] * 100 + day[3]

\* empty, or a YYYY-MM-DD date not later than today
StrictDateOk(s) ==
    s = <<>> \/ \E ymd \in DatesWritten(s, IsoMonth, IsoDay) : NotLater(ymd, today)

\* empty, or a date %Y-%m-%d reads that is not later than today
ReadableDateOk(s) ==
    s = <<>> \/ \E ymd \in DatesWritten(s, MonthTexts, DayTexts) : NotLater(ymd, today)

\* the rules of validate(fields, excluding_id) other than the date rules
RulesButDates ==
    /\ Field("name") # <<>>
    /\ Field("file_no") # <<>>
    /\ Field("national_id") # <<>>
    /\ ~OtherRowHas("file_no", Field("file_no"), selected_emp_id)
    /\ ~OtherRowHas("national_id", Field("national_id"), selected_emp_id)
    /\ Len(Field("national_id")) = 14 /\ AllNumeric(Field("national_id"))
    /\ AllNumeric(Field("phone"))

Validated == lastOp.op = "validate_employee_form"

Checks == 1..10

DateOfCheck(i) == IF i = 8 THEN "grade_date" ELSE IF i = 9 THEN "hire_date" ELSE "birth_date"

CheckViolated(i) ==
    CASE i = 1 -> Field("name") = <<>>
      [] i = 2 -> Field("file_no") = <<>>
      [] i = 3 -> OtherRowHas("file_no", Field("file_no"), selected_emp_id)
      [] i = 4 -> Field("national_id") = <<>>
      [] i = 5 -> ~(Len(Field("national_id")) = 14 /\ AllNumeric(Field("national_id")))
      [] i = 6 -> OtherRowHas("national_id", Field("national_id"), selected_emp_id)
      [] i = 7 -> ~AllNumeric(Field("phone"))
      [] OTHER -> ~ReadableDateOk(Field(DateOfCheck(i)))

\* the error each check reports
CheckMsg(i) ==
    CASE i = 1 -> <<"required", "name">>
      [] i = 2 -> <<"required", "file_no">>
      [] i = 3 -> <<"duplicate", "file_no">>
      [] i = 4 -> <<"required", "national_id">>
      [] i = 5 -> <<"format", "national_id">>
      [] i = 6 -> <<"duplicate", "national_id">>
      [] i = 7 -> <<"format", "phone">>
      [] OTHER -> IF DatesWritten(Field(DateOfCheck(i)), MonthTexts, DayTexts) # {}
                  THEN <<"future", DateOfCheck(i)>>
                  ELSE <<"format", DateOfCheck(i)>>

ViolatedChecks == { i \in Checks : CheckViolated(i) }

====
